---------------------------- MODULE Spec2Model ----------------------------
(***************************************************************************)
(* ClipTray: the click-to-paste dispatcher (src/overlay.py, src/main.py),  *)
(* the injection engine (type_text, execute_macro, _restore_clipboard) and *)
(* the one-shot global mouse listener with its signal bridge, and the      *)
(* caret locator with its companion icon (src/caret_companion.py), and    *)
(* the macro builder with the step serialisation (src/macro_builder.py,    *)
(* src/clip_manager.py).                                                   *)
(*                                                                         *)
(* Texts are sequences of one-character strings; an optional Python value  *)
(* (None or an object) is a sequence of length 0 or 1.                     *)
(***************************************************************************)
EXTENDS Integers, Sequences, FiniteSets, TLC

VARIABLES
    \* ---- ClipTrayApp / OverlayWindow state (UI thread) ----
    overlayVisible,     \* OverlayWindow.isVisible()
    clickToPaste,       \* SettingsManager.click_to_paste (settings.json; fixed in a run)
    pynputAvailable,    \* whether "from pynput import mouse" succeeds
    timers,             \* pending QTimer.singleShot callbacks, in creation order
    waiting_text,       \* ClipTrayApp._waiting_text   (<<>> is None)
    waiting_macro,      \* ClipTrayApp._waiting_macro  (<<>> is None)
    mouse_listener,     \* ClipTrayApp._mouse_listener: "None", "running", "finished"
    listeners,          \* the pynput mouse listener threads started and not yet ended
    waiting_badge,      \* ClipTrayApp._waiting_badge is not None (and shown)
    badges,             \* the WaitingBadge widgets shown and not yet deleted
    clickQueue,         \* click_detected emissions queued for the UI thread
    clipboard,          \* the OS clipboard (text)
    \* ---- history of the run (read by the properties only) ----
    sels,               \* the clip selections made so far: sels[n] is selection n
    calls,              \* the type_text / execute_macro calls made so far
    armedEver,          \* selections whose payload was armed
    replaced,           \* selections whose payload was pending when another was armed
    cancelled,          \* selections whose payload was pending when cancel ran
    stale,              \* selections consumed by a click seen before their arming
    pressSinceArm,      \* a left press was observed by the hook since the last arm
    clipFault,          \* some clipboard access of the run has failed
    \* ---- one call of the injection engine on its own ----
    pc,                 \* "app", or the phase of the single call: "input", "called", "restored"
    inj,                \* the single call: its inputs and what it did
    \* ---- CaretCompanion (src/caret_companion.py) ----
    caret,              \* the companion's fields, the probes of its latest poll and their result
    \* ---- MacroBuilder in the add/edit dialog (src/macro_builder.py) ----
    mb                  \* the builder's fields, and the steps as saved and as loaded again

appVars == <<overlayVisible, clickToPaste, pynputAvailable, timers, waiting_text,
             waiting_macro, mouse_listener, listeners, waiting_badge, badges, clickQueue, clipboard,
             sels, calls, armedEver, replaced, cancelled, stale, pressSinceArm,
             clipFault>>
vars == <<appVars, pc, inj, caret, mb>>

---------------------------------------------------------------------------
\* Bounds of the model.

\* Number of clip selections (_on_clip_clicked) in one run.
MaxSelections == 2
\* Longest step sequence handed to execute_macro on its own.
MaxSteps == 3
\* Longest text handed to type_text on its own; most characters of text the
\* macro builder holds in all its text blocks.
MaxText == 2
\* The longest step list the macro builder is given to hold.
MaxBuilderSteps == 4
\* The longest step list of a stored macro that a dialog loads.
MaxStored == 2
\* The longest side of the focused control's bounding rectangle.
MaxSide == 1
\* Most key_pressed notifications queued for the UI thread at a time.
MaxKeyQueue == 2
\* Most actions captured into the builder by key capture on its own.
MaxCaptures == 1

---------------------------------------------------------------------------
\* Step model (src/clip_manager.py).

TextStep(v) == [type |-> "text", value |-> v]

ActionStep(k, l) == [type |-> "action", keys |-> k, label |-> l]

IsTextStep(s) == s.type = "text"

IsActionStep(s) == s.type = "action"

\* The clips of the store the runs select from: a plain text clip, a macro,
\* a clip flagged is_macro whose steps list is empty, and a plain clip with
\* empty text (Clip's defaults: text "", steps []).
Clips ==
    <<  [is_macro |-> FALSE, text |-> <<"a">>, steps |-> <<>>],
        [is_macro |-> TRUE,  text |-> <<"x", "y">>,
         steps |-> << TextStep(<<"x">>), ActionStep(<<"ctrl", "a">>, "Ctrl + A"),
                      TextStep(<<"y">>) >>],
        [is_macro |-> TRUE,  text |-> <<"m">>, steps |-> <<>>],
        [is_macro |-> FALSE, text |-> <<>>, steps |-> <<>>] >>

ClipIds == 1..Len(Clips)

\* What the user had on the clipboard before ClipTray touched it.
UserClipboard == <<"u">>

---------------------------------------------------------------------------
\* Injection engine (src/main.py).  A call is a pure function of its
\* argument, the clipboard it finds and which clipboard accesses fail; it
\* returns the events it performed, the clipboard it leaves, the restore it
\* scheduled (0 or 1 saved contents) and whether an exception left the call.

Ev(op, arg) == [op |-> op, arg |-> arg]

\* Which accesses fail in one call: the import of pyperclip, the paste()
\* that saves the clipboard, and the copy() of step/attempt number copyFail
\* (0: no copy fails).
Envs(n) == [import : BOOLEAN, read : BOOLEAN, copyFail : 0..n]

NoFault == [import |-> FALSE, read |-> FALSE, copyFail |-> 0]

\* The per-character fallback of type_text (lines 114-123).
RECURSIVE TypeChars(_)
TypeChars(text) ==
    IF text = <<>> THEN <<>>
    ELSE LET ch == Head(text)
             ev == IF ch = "\n" THEN Ev("press", <<"enter">>)
                   ELSE IF ch = "\t" THEN Ev("press", <<"tab">>)
                   ELSE Ev("write", <<ch>>)
         IN  <<ev>> \o TypeChars(Tail(text))

type_text(text, cb, env) ==
    IF env.import
    THEN \* except ImportError: direct typing
         [events |-> TypeChars(text), clipboard |-> cb, restore |-> <<>>,
          raised |-> FALSE]
    ELSE LET old_clipboard == IF env.read THEN <<>> ELSE cb
             saved == <<Ev("paste", <<>>)>>
         IN  IF env.copyFail = 1
             THEN \* pyperclip.copy raises; only ImportError is caught
                  [events |-> saved \o <<Ev("copy_failed", text)>>, clipboard |-> cb,
                   restore |-> <<>>, raised |-> TRUE]
             ELSE [events |-> saved \o <<Ev("copy", text), Ev("hotkey", <<"ctrl", "v">>),
                                         Ev("schedule_restore", old_clipboard)>>,
                   clipboard |-> text, restore |-> <<old_clipboard>>,
                   raised |-> FALSE]

\* The loop of execute_macro from step i on (lines 149-162): acc is the
\* state so far.  A copy() that raises leaves the loop and the function.
RECURSIVE MacroLoop(_, _, _, _)
MacroLoop(steps, i, env, acc) ==
    IF i > Len(steps) THEN acc
    ELSE LET step == steps[i] IN
         IF IsTextStep(step) /\ step.value # <<>>
         THEN IF env.copyFail = i
              THEN [acc EXCEPT !.events = @ \o <<Ev("copy_failed", step.value)>>,
                               !.raised = TRUE]
              ELSE MacroLoop(steps, i + 1, env,
                       [acc EXCEPT !.events = @ \o <<Ev("copy", step.value),
                                                     Ev("hotkey", <<"ctrl", "v">>)>>,
                                   !.clipboard = step.value])
         ELSE IF IsActionStep(step) /\ step.keys # <<>>
         THEN MacroLoop(steps, i + 1, env,
                        [acc EXCEPT !.events = @ \o <<Ev("hotkey", step.keys)>>])
         ELSE MacroLoop(steps, i + 1, env, acc)

execute_macro(steps, cb, env) ==
    IF env.import
    THEN \* "import pyperclip" raises ImportError out of the function
         [events |-> <<>>, clipboard |-> cb, restore |-> <<>>, raised |-> TRUE]
    ELSE LET old_clipboard == IF env.read THEN <<>> ELSE cb
             looped == MacroLoop(steps, 1, env,
                           [events |-> <<Ev("paste", <<>>)>>, clipboard |-> cb,
                            restore |-> <<>>, raised |-> FALSE])
         IN  IF looped.raised THEN looped
             ELSE [looped EXCEPT !.events = @ \o <<Ev("schedule_restore", old_clipboard)>>,
                                 !.restore = <<old_clipboard>>]

\* _restore_clipboard: a failing copy is swallowed and leaves the clipboard.
restore_clipboard(old_text, cb, fails) == IF fails THEN cb ELSE old_text

---------------------------------------------------------------------------
\* Caret locator (src/caret_companion.py).  The probes are what the four
\* detection methods meet in the window that holds input focus: own says that
\* this window belongs to ClipTray's own process.  A position is named after
\* the method that computed it.

Outcomes == {"none", "pos", "raise"}

\* The UIA ControlType names and pattern ids method 4 counts as editable.
EDITABLE_TYPES == {"EditControl", "DocumentControl", "ComboBoxControl"}

EDITABLE_PATTERNS == {10002, 10014, 10024, 10032}

\* The focused control as method 4 meets it: its ControlTypeName, the ids
\* of the patterns it exposes (10002 ValuePattern, 10015 TogglePattern) and
\* the sides of its BoundingRectangle.
ControlTypes == EDITABLE_TYPES \cup {"PaneControl"}

PatternSets == {{}, {10002}, {10015}}

FocusedControls == [name : ControlTypes, patterns : PatternSets,
                    width : 0..MaxSide, height : 0..MaxSide]

\* An edit box of non-empty extent.
EditBox == [name |-> "EditControl", patterns |-> {10002}, width |-> 1, height |-> 1]

\* win32: GetGUIThreadInfo fails, reports no caret window, reports a caret,
\* or a ctypes call raises.  fallback: GetFocusedControl raises, returns
\* None, or returns the control ctrl (ctrl is EditBox when there is none).
AllProbes ==
    {p \in [own : BOOLEAN, win32 : {"fail", "nocaret", "caret", "raise"},
            tp2 : Outcomes, selection : Outcomes,
            fallback : {"raise", "nocontrol", "control"}, ctrl : FocusedControls] :
        p.fallback # "control" => p.ctrl = EditBox}

\* The probes met by the polls of the running companion: the focused
\* control, when there is one, is an edit box.
Probes == {p \in AllProbes : p.ctrl = EditBox}

Located(pos, raised) == [pos |-> pos, raised |-> raised]

\* Method 1: no exception handler; the caret of the own process is skipped.
get_caret_win32(p) ==
    IF p.win32 = "raise" THEN Located(<<>>, TRUE)
    ELSE IF p.win32 = "fail" THEN Located(<<>>, FALSE)
    ELSE IF p.win32 = "nocaret" THEN Located(<<>>, FALSE)
    ELSE IF p.own THEN Located(<<>>, FALSE)
    ELSE Located(<<"win32">>, FALSE)

\* Methods 2-4: try/except Exception around the UIA calls, then return None;
\* none of them looks at the process of the focused control.
get_caret_uia_tp2(p) ==
    IF p.tp2 = "pos" THEN Located(<<"tp2">>, FALSE) ELSE Located(<<>>, FALSE)

get_caret_uia_selection(p) ==
    IF p.selection = "pos" THEN Located(<<"selection">>, FALSE) ELSE Located(<<>>, FALSE)

\* Method 4: no focused control, a ControlTypeName outside _EDITABLE_TYPES
\* or an empty rectangle give None; otherwise the corner (right, bottom).
get_caret_fallback(p) ==
    IF p.fallback = "raise" THEN Located(<<>>, FALSE)
    ELSE IF p.fallback = "nocontrol" THEN Located(<<>>, FALSE)
    ELSE IF p.ctrl.name \notin EDITABLE_TYPES THEN Located(<<>>, FALSE)
    ELSE IF p.ctrl.width > 0 /\ p.ctrl.height > 0
    THEN Located(<<"fallback">>, FALSE)
    ELSE Located(<<>>, FALSE)

MethodOrder == <<"win32", "tp2", "selection", "fallback">>

CallMethod(m, p) ==
    CASE m = "win32" -> get_caret_win32(p)
      [] m = "tp2" -> get_caret_uia_tp2(p)
      [] m = "selection" -> get_caret_uia_selection(p)
      [] m = "fallback" -> get_caret_fallback(p)

\* A locator that calls all four methods and returns the last position found.
RECURSIVE get_caret_screen_pos_LastWins(_, _, _)
get_caret_screen_pos_LastWins(p, k, invoked) ==
    IF k > Len(MethodOrder)
    THEN [pos |-> <<>>, raised |-> FALSE, invoked |-> invoked]
    ELSE LET r == CallMethod(MethodOrder[k], p)
             rest == get_caret_screen_pos_LastWins(p, k + 1,
                                                   Append(invoked, MethodOrder[k]))
         IN  IF r.raised
             THEN [pos |-> <<>>, raised |-> TRUE,
                   invoked |-> Append(invoked, MethodOrder[k])]
             ELSE IF rest.pos # <<>> \/ rest.raised THEN rest
             ELSE [rest EXCEPT !.pos = r.pos]

\* get_caret_screen_pos from method number k on: the methods invoked so far
\* are recorded, an exception of a method leaves the function.
RECURSIVE get_caret_screen_pos(_, _, _)
get_caret_screen_pos(p, k, invoked) ==
    IF k > Len(MethodOrder)
    THEN [pos |-> <<>>, raised |-> FALSE, invoked |-> invoked]
    ELSE LET r == CallMethod(MethodOrder[k], p)
             now == Append(invoked, MethodOrder[k])
         IN  IF r.raised THEN [pos |-> <<>>, raised |-> TRUE, invoked |-> now]
             ELSE IF r.pos # <<>> THEN [pos |-> r.pos, raised |-> FALSE, invoked |-> now]
             ELSE get_caret_screen_pos(p, k + 1, now)

\* CaretCompanion.__init__: disabled, no listener, both timers stopped, no
\* icon; nothing polled yet.  icon is the icon's isVisible(), fading says
\* that its fade-out animation runs, keyQueue counts the key_pressed
\* notifications queued for the UI thread, and last names the handler of
\* the companion that ran last (read by the properties only).
NotPolled == [own |-> FALSE, win32 |-> "unpolled", tp2 |-> "none",
              selection |-> "none", fallback |-> "nocontrol", ctrl |-> EditBox]

CaretCompanion(kbAvailable) ==
    [enabled |-> FALSE, kbAvailable |-> kbAvailable, kb_listener |-> "None",
     poll |-> FALSE, fade |-> FALSE, icon |-> FALSE, fading |-> FALSE,
     keyQueue |-> 0, last |-> "none",
     probes |-> NotPolled,
     located |-> [pos |-> <<>>, raised |-> FALSE, invoked |-> <<>>]]

\* _start_listener: an exception of the import or of Listener is swallowed
\* and leaves _kb_listener None.
start_listener(c) ==
    IF c.kb_listener # "None" THEN c
    ELSE IF c.kbAvailable THEN [c EXCEPT !.kb_listener = "running"]
    ELSE c

stop_listener(c) == [c EXCEPT !.kb_listener = "None"]

\* CaretCompanionIcon.fade_out: nothing for a hidden icon, else the
\* 600 ms animation is (re)started; the icon stays visible until it ends.
fade_out(c) == IF ~c.icon THEN c ELSE [c EXCEPT !.fading = TRUE]

\* CaretCompanionIcon.show_icon: the animation is stopped, the icon shown.
show_icon(c) == [c EXCEPT !.fading = FALSE, !.icon = TRUE]

\* CaretCompanionIcon._on_fade_done: the animation has finished.
on_fade_done(c) == [c EXCEPT !.fading = FALSE, !.icon = FALSE]

\* hide_icon: both timers stopped, the icon hidden at once (a running
\* animation is not stopped).
hide_icon(c) == [c EXCEPT !.poll = FALSE, !.fade = FALSE, !.icon = FALSE]

set_enabled(c, on) ==
    IF on = c.enabled THEN c
    ELSE IF on THEN start_listener([c EXCEPT !.enabled = TRUE])
    ELSE hide_icon(stop_listener([c EXCEPT !.enabled = FALSE]))

\* _poll_caret: located.raised says that the exception of the locator left
\* the handler (nothing else was changed).
poll_caret(c, p) ==
    LET r == get_caret_screen_pos(p, 1, <<>>)
        polled == [c EXCEPT !.probes = p, !.located = r]
    IN  IF r.raised THEN polled
        ELSE IF r.pos = <<>>
        THEN fade_out([polled EXCEPT !.poll = FALSE, !.fade = FALSE])
        ELSE IF polled.icon THEN polled
        ELSE show_icon(polled)

\* _on_key_activity without its "if not self._enabled: return".
on_key_activity_IgnoresEnabled(c, p) ==
    LET faded == [c EXCEPT !.fade = TRUE] IN
    IF faded.poll THEN faded
    ELSE LET polled == poll_caret(faded, p) IN
         IF polled.located.raised THEN polled
         ELSE [polled EXCEPT !.poll = TRUE]

\* _on_key_activity: restart the fade timer, poll at once and start the
\* poll timer when it is not running.
on_key_activity(c, p) ==
    IF ~c.enabled THEN c
    ELSE LET faded == [c EXCEPT !.fade = TRUE] IN
         IF faded.poll THEN faded
         ELSE LET polled == poll_caret(faded, p) IN
              IF polled.located.raised THEN polled
              ELSE [polled EXCEPT !.poll = TRUE]

\* _start_fade (the single-shot fade timer has expired).
start_fade(c) == fade_out([c EXCEPT !.poll = FALSE, !.fade = FALSE])

---------------------------------------------------------------------------
\* Step serialisation (src/clip_manager.py).  A dict is a function from its
\* keys to its values; d.get(key, default) is Get(d, key, default).

Get(d, key, default) == IF key \in DOMAIN d THEN d[key] ELSE default

TextStep_to_dict(s) == [type |-> s.type, value |-> s.value]

ActionStep_to_dict(s) == [type |-> s.type, keys |-> s.keys, label |-> s.label]

to_dict(s) == IF IsTextStep(s) THEN TextStep_to_dict(s) ELSE ActionStep_to_dict(s)

TextStep_from_dict(d) == TextStep(Get(d, "value", <<>>))

ActionStep_from_dict(d) == ActionStep(Get(d, "keys", <<>>), Get(d, "label", ""))

\* A factory that reads every record as a TextStep.
step_from_dict_TextOnly(d) == TextStep_from_dict(d)

step_from_dict(d) ==
    IF Get(d, "type", "") = "action" THEN ActionStep_from_dict(d)
    ELSE TextStep_from_dict(d)

\* Clip.to_dict / Clip.from_dict on the steps list.
steps_to_dict(steps) == [i \in 1..Len(steps) |-> to_dict(steps[i])]

steps_from_dict(steps_data) == [i \in 1..Len(steps_data) |-> step_from_dict(steps_data[i])]

---------------------------------------------------------------------------
\* MacroBuilder (src/macro_builder.py).

\* MacroBuilder.__init__: one empty text block, no capture.  listening is
\* KeyCaptureOverlay._listening.  History: popped holds the list
\* _on_remove_step handed to its merge loop, loaded the list set_steps was
\* given, event the key event the capture overlay handled last (each kept
\* until the next edit); file and reloaded are the steps as written by
\* Clip.to_dict and as read by from_dict.
MacroBuilder ==
    [steps |-> <<TextStep(<<>>)>>, capture_insert_index |-> -1, listening |-> FALSE,
     popped |-> <<>>, loaded |-> <<>>, event |-> <<>>, file |-> <<>>, reloaded |-> <<>>]

\* A merge that also drops the action steps.
RECURSIVE merge_adjacent_text_DropsActions(_, _)
merge_adjacent_text_DropsActions(steps, merged) ==
    IF steps = <<>> THEN merged
    ELSE LET step == Head(steps) IN
         IF IsActionStep(step) THEN merge_adjacent_text_DropsActions(Tail(steps), merged)
         ELSE IF merged # <<>>
         THEN merge_adjacent_text_DropsActions(Tail(steps),
                  <<TextStep(merged[1].value \o step.value)>>)
         ELSE merge_adjacent_text_DropsActions(Tail(steps), <<step>>)

\* The merge loop of _on_remove_step (lines 390-396): merged is the list
\* built so far.
RECURSIVE merge_adjacent_text(_, _)
merge_adjacent_text(steps, merged) ==
    IF steps = <<>> THEN merged
    ELSE LET step == Head(steps)
             n == Len(merged)
         IN  IF n > 0 /\ IsTextStep(merged[n]) /\ IsTextStep(step)
             THEN merge_adjacent_text(Tail(steps),
                      [merged EXCEPT ![n] = TextStep(merged[n].value \o step.value)])
             ELSE merge_adjacent_text(Tail(steps), Append(merged, step))

\* list.pop(index) and list.insert(index, x), index counted from 0.
Pop(steps, index) == SubSeq(steps, 1, index) \o SubSeq(steps, index + 2, Len(steps))

Insert(steps, index, x) ==
    LET at == IF index > Len(steps) THEN Len(steps) ELSE index
    IN  SubSeq(steps, 1, at) \o <<x>> \o SubSeq(steps, at + 1, Len(steps))

on_add_text_clicked(b) ==
    [b EXCEPT !.steps = Append(@, TextStep(<<>>)), !.popped = <<>>, !.loaded = <<>>, !.event = <<>>]

on_add_action_clicked(b) ==
    [b EXCEPT !.capture_insert_index = Len(b.steps), !.listening = TRUE, !.popped = <<>>, !.loaded = <<>>, !.event = <<>>]

on_action_captured(b, action) ==
    [b EXCEPT !.steps = Insert(@, b.capture_insert_index, action),
              !.listening = FALSE, !.popped = <<>>, !.loaded = <<>>, !.event = <<>>]

on_capture_cancelled(b) == [b EXCEPT !.listening = FALSE, !.popped = <<>>, !.loaded = <<>>, !.event = <<>>]

on_remove_step(b, index) ==
    IF 0 <= index /\ index < Len(b.steps)
    THEN LET popped == Pop(b.steps, index)
             merged == merge_adjacent_text(popped, <<>>)
         IN  [b EXCEPT !.steps = IF merged = <<>> THEN <<TextStep(<<>>)>> ELSE merged,
                       !.popped = <<popped>>, !.loaded = <<>>, !.event = <<>>]
    ELSE [b EXCEPT !.popped = <<>>, !.loaded = <<>>, !.event = <<>>]

on_text_changed(b, index, text) ==
    IF 0 <= index /\ index < Len(b.steps) /\ IsTextStep(b.steps[index + 1])
    THEN [b EXCEPT !.steps[index + 1] = TextStep(text), !.popped = <<>>, !.loaded = <<>>, !.event = <<>>]
    ELSE [b EXCEPT !.popped = <<>>, !.loaded = <<>>, !.event = <<>>]

\* set_steps storing the list as given, an empty one included.
set_steps_AsGiven(b, steps) ==
    [b EXCEPT !.steps = steps,
              !.popped = <<>>, !.loaded = <<steps>>, !.event = <<>>]

set_steps(b, steps) ==
    [b EXCEPT !.steps = IF steps # <<>> THEN steps ELSE <<TextStep(<<>>)>>,
              !.popped = <<>>, !.loaded = <<steps>>, !.event = <<>>]

---------------------------------------------------------------------------
\* Key capture (src/macro_builder.py).  A key event is its Qt key, the
\* keyboard modifier flags set and its text().

\* Some entries of QT_KEY_TO_NAME.
QT_KEY_TO_NAME ==
    [k \in {"Key_Return", "Key_Enter", "Key_PageUp"} |->
        CASE k = "Key_Return" -> "enter"
          [] k = "Key_Enter" -> "enter"
          [] k = "Key_PageUp" -> "pageup"]

MODIFIER_KEYS == {"Key_Control", "Key_Shift", "Key_Alt", "Key_Meta"}

\* event.text() for Ctrl+A (U+0001) and for Return.
CtrlA == "U+0001"

CarriageReturn == "U+000D"

\* str.isprintable, str.lower, str.upper and str.capitalize on the strings
\* that occur ("".isprintable() is True).
isprintable(text) == text \notin {CtrlA, CarriageReturn}

lower(text) == IF text = "A" THEN "a" ELSE text

upper(text) == IF text = "a" THEN "A" ELSE text

capitalize(text) ==
    CASE text = "enter" -> "Enter"
      [] text = "pageup" -> "Pageup"
      [] text = "ctrl" -> "Ctrl"
      [] text = "alt" -> "Alt"
      [] text = "shift" -> "Shift"
      [] text = "win" -> "Win"
      [] OTHER -> upper(text)

\* " + ".join(parts) for a non-empty list.
RECURSIVE JoinPlus(_)
JoinPlus(parts) ==
    IF Len(parts) = 1 THEN parts[1]
    ELSE parts[1] \o " + " \o JoinPlus(Tail(parts))

\* The tokens with shift tested before alt.
ModifierTokens_ShiftFirst ==
    << [flag |-> "ControlModifier", key |-> "ctrl", label |-> "Ctrl"],
       [flag |-> "ShiftModifier", key |-> "shift", label |-> "Shift"],
       [flag |-> "AltModifier", key |-> "alt", label |-> "Alt"],
       [flag |-> "MetaModifier", key |-> "win", label |-> "Win"] >>

\* The tokens appended for the modifier flags, in the order of the four ifs.
ModifierTokens ==
    << [flag |-> "ControlModifier", key |-> "ctrl", label |-> "Ctrl"],
       [flag |-> "AltModifier", key |-> "alt", label |-> "Alt"],
       [flag |-> "ShiftModifier", key |-> "shift", label |-> "Shift"],
       [flag |-> "MetaModifier", key |-> "win", label |-> "Win"] >>

\* key_event_to_action: keys is <<>> for (None, None).
key_event_to_action(event) ==
    LET none == [keys |-> <<>>, label |-> ""]
        IsHeld(tok) == tok.flag \in event.modifiers
        held == SelectSeq(ModifierTokens, IsHeld)
        keys == [i \in 1..Len(held) |-> held[i].key]
        label_parts == [i \in 1..Len(held) |-> held[i].label]
    IN  IF event.key \in MODIFIER_KEYS THEN none
        ELSE IF event.key \in DOMAIN QT_KEY_TO_NAME
        THEN LET key_name == QT_KEY_TO_NAME[event.key] IN
             [keys |-> Append(keys, key_name),
              label |-> JoinPlus(Append(label_parts, capitalize(key_name)))]
        ELSE IF event.text # "" /\ isprintable(event.text)
        THEN [keys |-> Append(keys, lower(event.text)),
              label |-> JoinPlus(Append(label_parts, upper(event.text)))]
        ELSE none

\* A keyPressEvent that ends the capture on any key.
keyPressEvent_StopsOnAnyKey(b, event) ==
    LET r == key_event_to_action(event) IN
    IF ~b.listening THEN [b EXCEPT !.event = <<event>>]
    ELSE IF r.keys # <<>>
    THEN [on_action_captured(b, ActionStep(r.keys, r.label)) EXCEPT !.event = <<event>>]
    ELSE [b EXCEPT !.listening = FALSE, !.event = <<event>>]

\* KeyCaptureOverlay.keyPressEvent: a recognised key stops the capture and
\* is handed to MacroBuilder._on_action_captured; any other key goes to
\* QWidget.keyPressEvent, which ignores it.
keyPressEvent(b, event) ==
    LET r == key_event_to_action(event) IN
    IF ~b.listening THEN [b EXCEPT !.event = <<event>>]
    ELSE IF r.keys # <<>>
    THEN [on_action_captured(b, ActionStep(r.keys, r.label)) EXCEPT !.event = <<event>>]
    ELSE [b EXCEPT !.event = <<event>>]


---------------------------------------------------------------------------
\* Timers (QTimer.singleShot) and their delays in milliseconds.

EmitWaitDelay == 200

EmitNowDelay == 300

SettleDelay == 150

RestoreDelay == 1000

FallbackDelay == 2000

Timer(kind, delay, sel, clip, text) ==
    [kind |-> kind, delay |-> delay, sel |-> sel, clip |-> clip, text |-> text]

\* Timer i has expired and is the next to be delivered: no timer created
\* earlier with the same or a shorter delay is still pending (its deadline
\* is not later).  Handlers block the UI thread (time.sleep), so a timer may
\* be delivered any time after its deadline.
CanFire(i) == \A j \in 1..(i - 1) : timers[j].delay > timers[i].delay

Without(seq, i) == SubSeq(seq, 1, i - 1) \o SubSeq(seq, i + 1, Len(seq))

\* The selections whose payload is pending (is not None).
PendingSels ==
    {waiting_text[k].sel : k \in 1..Len(waiting_text)}
        \cup {waiting_macro[k].sel : k \in 1..Len(waiting_macro)}

---------------------------------------------------------------------------
\* ClipTrayApp helpers (src/main.py).

\* _start_click_listener after _stop_click_listener: the listener, or the
\* timer fallback when pynput cannot be imported.
StartedListener == IF pynputAvailable THEN "running" ELSE "None"

\* _stop_click_listener: stop() ends the thread _mouse_listener refers to
\* (a listener that returned False from on_click has ended already).
StoppedListeners == IF mouse_listener = "running" THEN listeners - 1 ELSE listeners

\* _start_click_listener without its leading _stop_click_listener().
StartedListeners_NoStop == IF pynputAvailable THEN listeners + 1 ELSE listeners

\* _start_click_listener: the previous listener is stopped, then a new
\* thread is started when pynput can be imported.
StartedListeners == IF pynputAvailable THEN StoppedListeners + 1 ELSE StoppedListeners

\* _hide_waiting_badge: the badge, if there is one, is hidden and deleted.
HiddenBadges == IF waiting_badge THEN badges - 1 ELSE badges

\* _show_waiting_badge without the removal of the existing badge.
ShownBadges_KeepsOld == badges + 1

\* _show_waiting_badge: an existing badge is hidden and deleted, then a new
\* one is created and shown.
ShownBadges == HiddenBadges + 1

\* The except ImportError branch of _start_click_listener: a single-shot
\* timer that calls _on_global_click.  The timer carries no payload; sel
\* records, for the properties, the arming that created it.
FallbackTimers(sel) == IF pynputAvailable THEN <<>>
                       ELSE <<Timer("fallback", FallbackDelay, sel, 0, <<>>)>>

\* What the history records when a payload for selection sel is armed.
ArmHistory(sel) ==
    /\ armedEver' = armedEver \cup {sel}
    /\ replaced' = replaced \cup PendingSels
    /\ pressSinceArm' = FALSE
    /\ UNCHANGED <<cancelled, stale>>

\* _on_wait_and_type_clip without its "self._waiting_macro = None".
on_wait_and_type_clip_KeepsMacro(i, sel, text) ==
    /\ waiting_text' = <<[sel |-> sel, text |-> text]>>
    /\ waiting_macro' = waiting_macro
    /\ waiting_badge' = TRUE
    /\ badges' = ShownBadges
    /\ mouse_listener' = StartedListener
    /\ listeners' = StartedListeners
    /\ timers' = Without(timers, i) \o FallbackTimers(sel)
    /\ ArmHistory(sel)
    /\ UNCHANGED <<overlayVisible, clickToPaste, pynputAvailable, clickQueue,
                   clipboard, sels, calls, clipFault, pc, inj, caret, mb>>

\* _on_wait_and_type_clip(text), reached from timer i.
on_wait_and_type_clip(i, sel, text) ==
    /\ waiting_text' = <<[sel |-> sel, text |-> text]>>
    /\ waiting_macro' = <<>>
    /\ waiting_badge' = TRUE
    /\ badges' = ShownBadges
    /\ mouse_listener' = StartedListener
    /\ listeners' = StartedListeners
    /\ timers' = Without(timers, i) \o FallbackTimers(sel)
    /\ ArmHistory(sel)
    /\ UNCHANGED <<overlayVisible, clickToPaste, pynputAvailable, clickQueue,
                   clipboard, sels, calls, clipFault, pc, inj, caret, mb>>

\* _on_wait_and_execute_macro(clip), reached from timer i.
on_wait_and_execute_macro(i, sel, clip) ==
    /\ waiting_text' = <<>>
    /\ waiting_macro' = <<[sel |-> sel, clip |-> clip]>>
    /\ waiting_badge' = TRUE
    /\ badges' = ShownBadges
    /\ mouse_listener' = StartedListener
    /\ listeners' = StartedListeners
    /\ timers' = Without(timers, i) \o FallbackTimers(sel)
    /\ ArmHistory(sel)
    /\ UNCHANGED <<overlayVisible, clickToPaste, pynputAvailable, clickQueue,
                   clipboard, sels, calls, clipFault, pc, inj, caret, mb>>

\* The record of one call of the injection engine.
Call(fn, sel, text, steps, click, res) ==
    [fn |-> fn, sel |-> sel, text |-> text, steps |-> steps, click |-> click,
     overlay |-> overlayVisible, raised |-> res.raised]

RestoreTimers(res) ==
    IF res.restore = <<>> THEN <<>>
    ELSE <<Timer("restore", RestoreDelay, 0, 0, res.restore[1])>>

\* type_text(text) called from timer i (after the pre-injection delay).
CallTypeText(i, sel, text, click) ==
    \E env \in Envs(1) :
        LET res == type_text(text, clipboard, env) IN
        /\ clipboard' = res.clipboard
        /\ timers' = Without(timers, i) \o RestoreTimers(res)
        /\ calls' = Append(calls, Call("type_text", sel, text, <<>>, click, res))
        /\ clipFault' = (clipFault \/ env # NoFault)
        /\ UNCHANGED <<overlayVisible, clickToPaste, pynputAvailable, waiting_text,
                       waiting_macro, mouse_listener, listeners, waiting_badge, badges, clickQueue,
                       sels, armedEver, replaced, cancelled, stale, pressSinceArm,
                       pc, inj, caret, mb>>

\* execute_macro(steps) called from timer i.
CallExecuteMacro(i, sel, steps, click) ==
    \E env \in Envs(Len(steps)) :
        LET res == execute_macro(steps, clipboard, env) IN
        /\ clipboard' = res.clipboard
        /\ timers' = Without(timers, i) \o RestoreTimers(res)
        /\ calls' = Append(calls, Call("execute_macro", sel, <<>>, steps, click, res))
        /\ clipFault' = (clipFault \/ env # NoFault)
        /\ UNCHANGED <<overlayVisible, clickToPaste, pynputAvailable, waiting_text,
                       waiting_macro, mouse_listener, listeners, waiting_badge, badges, clickQueue,
                       sels, armedEver, replaced, cancelled, stale, pressSinceArm,
                       pc, inj, caret, mb>>

\* _on_global_click scheduling the injection without clearing the payload.
on_global_click_KeepsPayload(rest) ==
    /\ mouse_listener' = "None"
    /\ listeners' = StoppedListeners
    /\ waiting_badge' = FALSE
    /\ badges' = HiddenBadges
    /\ IF waiting_macro # <<>>
       THEN /\ timers' = Append(rest, Timer("inject_macro", SettleDelay,
                                            waiting_macro[1].sel, waiting_macro[1].clip, <<>>))
            /\ stale' = IF pressSinceArm THEN stale
                        ELSE stale \cup {waiting_macro[1].sel}
       ELSE IF waiting_text # <<>> /\ waiting_text[1].text # <<>>
       THEN /\ timers' = Append(rest, Timer("inject_text", SettleDelay,
                                            waiting_text[1].sel, 0, waiting_text[1].text))
            /\ stale' = IF pressSinceArm THEN stale
                        ELSE stale \cup {waiting_text[1].sel}
       ELSE /\ timers' = rest
            /\ UNCHANGED stale
    /\ UNCHANGED <<waiting_text, waiting_macro>>
    /\ UNCHANGED <<overlayVisible, clickToPaste, pynputAvailable, clipboard, sels,
                   calls, armedEver, replaced, cancelled, pressSinceArm, clipFault,
                   pc, inj, caret, mb>>

\* _on_global_click, with `rest` the timers left pending by its caller.
on_global_click(rest) ==
    /\ mouse_listener' = "None"
    /\ listeners' = StoppedListeners
    /\ waiting_badge' = FALSE
    /\ badges' = HiddenBadges
    /\ IF waiting_macro # <<>>
       THEN /\ waiting_macro' = <<>>
            /\ waiting_text' = <<>>
            /\ timers' = Append(rest, Timer("inject_macro", SettleDelay,
                                            waiting_macro[1].sel, waiting_macro[1].clip, <<>>))
            /\ stale' = IF pressSinceArm THEN stale
                        ELSE stale \cup {waiting_macro[1].sel}
       ELSE IF waiting_text # <<>> /\ waiting_text[1].text # <<>>
       THEN /\ waiting_text' = <<>>
            /\ waiting_macro' = waiting_macro
            /\ timers' = Append(rest, Timer("inject_text", SettleDelay,
                                            waiting_text[1].sel, 0, waiting_text[1].text))
            /\ stale' = IF pressSinceArm THEN stale
                        ELSE stale \cup {waiting_text[1].sel}
       ELSE /\ timers' = rest
            /\ UNCHANGED <<waiting_text, waiting_macro, stale>>
    /\ UNCHANGED <<overlayVisible, clickToPaste, pynputAvailable, clipboard, sels,
                   calls, armedEver, replaced, cancelled, pressSinceArm, clipFault,
                   pc, inj, caret, mb>>

---------------------------------------------------------------------------
\* The user's actions on ClipTray's own windows (UI thread).

\* ClipTrayApp._show_overlay / _on_companion_open / tray activation.
ShowOverlay ==
    /\ pc = "app"
    /\ ~overlayVisible
    /\ overlayVisible' = TRUE
    /\ UNCHANGED <<clickToPaste, pynputAvailable, timers, waiting_text, waiting_macro,
                   mouse_listener, listeners, waiting_badge, badges, clickQueue, clipboard, sels, calls,
                   armedEver, replaced, cancelled, stale, pressSinceArm, clipFault,
                   pc, inj, caret, mb>>

\* OverlayWindow.hide_overlay (Escape, click outside the panel, tray toggle).
HideOverlay ==
    /\ pc = "app"
    /\ overlayVisible
    /\ overlayVisible' = FALSE
    /\ UNCHANGED <<clickToPaste, pynputAvailable, timers, waiting_text, waiting_macro,
                   mouse_listener, listeners, waiting_badge, badges, clickQueue, clipboard, sels, calls,
                   armedEver, replaced, cancelled, stale, pressSinceArm, clipFault,
                   pc, inj, caret, mb>>

\* _on_clip_clicked with the click_to_paste test inverted.
DispatchTimer_InvertedSetting(c, sel) ==
    IF Clips[c].is_macro /\ Clips[c].steps # <<>>
    THEN IF ~clickToPaste
         THEN Timer("emit_wait_macro", EmitWaitDelay, sel, c, <<>>)
         ELSE Timer("emit_macro", EmitNowDelay, sel, c, <<>>)
    ELSE IF ~clickToPaste
         THEN Timer("emit_wait_type", EmitWaitDelay, sel, c, <<>>)
         ELSE Timer("emit_type", EmitNowDelay, sel, c, <<>>)

\* _on_clip_clicked testing clip.is_macro alone, not "and clip.steps".
DispatchTimer_FlagOnly(c, sel) ==
    IF Clips[c].is_macro
    THEN IF clickToPaste
         THEN Timer("emit_wait_macro", EmitWaitDelay, sel, c, <<>>)
         ELSE Timer("emit_macro", EmitNowDelay, sel, c, <<>>)
    ELSE IF clickToPaste
         THEN Timer("emit_wait_type", EmitWaitDelay, sel, c, <<>>)
         ELSE Timer("emit_type", EmitNowDelay, sel, c, <<>>)

\* The timer _on_clip_clicked starts for clip c, selection number sel.
DispatchTimer(c, sel) ==
    IF Clips[c].is_macro /\ Clips[c].steps # <<>>
    THEN IF clickToPaste
         THEN Timer("emit_wait_macro", EmitWaitDelay, sel, c, <<>>)
         ELSE Timer("emit_macro", EmitNowDelay, sel, c, <<>>)
    ELSE IF clickToPaste
         THEN Timer("emit_wait_type", EmitWaitDelay, sel, c, <<>>)
         ELSE Timer("emit_type", EmitNowDelay, sel, c, <<>>)

\* OverlayWindow._on_clip_clicked(clip_id) for an existing clip.
ClipClicked(c) ==
    /\ pc = "app"
    /\ overlayVisible
    /\ Len(sels) < MaxSelections
    /\ overlayVisible' = FALSE
    /\ timers' = Append(timers, DispatchTimer(c, Len(sels) + 1))
    /\ sels' = Append(sels, [clip |-> c, ctp |-> clickToPaste])
    /\ UNCHANGED <<clickToPaste, pynputAvailable, waiting_text, waiting_macro,
                   mouse_listener, listeners, waiting_badge, badges, clickQueue, clipboard, calls,
                   armedEver, replaced, cancelled, stale, pressSinceArm, clipFault,
                   pc, inj, caret, mb>>

\* _cancel_waiting tearing down the listener and the badge only.
CancelWaiting_KeepsPayload ==
    /\ pc = "app"
    /\ waiting_badge
    /\ mouse_listener' = "None"
    /\ listeners' = StoppedListeners
    /\ waiting_badge' = FALSE
    /\ badges' = HiddenBadges
    /\ cancelled' = cancelled \cup PendingSels
    /\ UNCHANGED <<overlayVisible, clickToPaste, pynputAvailable, timers, clickQueue,
                   clipboard, sels, calls, armedEver, replaced, stale, pressSinceArm,
                   clipFault, pc, inj, caret, mb, waiting_text, waiting_macro>>

\* WaitingBadge._on_cancel -> ClipTrayApp._cancel_waiting.
CancelWaiting ==
    /\ pc = "app"
    /\ waiting_badge
    /\ mouse_listener' = "None"
    /\ listeners' = StoppedListeners
    /\ waiting_badge' = FALSE
    /\ badges' = HiddenBadges
    /\ waiting_text' = <<>>
    /\ waiting_macro' = <<>>
    /\ cancelled' = cancelled \cup PendingSels
    /\ UNCHANGED <<overlayVisible, clickToPaste, pynputAvailable, timers, clickQueue,
                   clipboard, sels, calls, armedEver, replaced, stale, pressSinceArm,
                   clipFault, pc, inj, caret, mb>>

---------------------------------------------------------------------------
\* The event loop of the UI thread: expired timers and queued signals.

\* The callback of timer i runs.
FireTimer(i) ==
    /\ pc = "app"
    /\ i \in 1..Len(timers)
    /\ CanFire(i)
    /\ LET t == timers[i] IN
       CASE t.kind = "emit_type" ->
                \* type_clip.emit(clip.text) -> _on_type_clip
                CallTypeText(i, t.sel, Clips[t.clip].text, FALSE)
         [] t.kind = "emit_macro" ->
                \* execute_macro.emit(clip) -> _on_execute_macro
                CallExecuteMacro(i, t.sel, Clips[t.clip].steps, FALSE)
         [] t.kind = "emit_wait_type" ->
                on_wait_and_type_clip(i, t.sel, Clips[t.clip].text)
         [] t.kind = "emit_wait_macro" ->
                on_wait_and_execute_macro(i, t.sel, t.clip)
         [] t.kind = "inject_text" ->
                CallTypeText(i, t.sel, t.text, TRUE)
         [] t.kind = "inject_macro" ->
                CallExecuteMacro(i, t.sel, Clips[t.clip].steps, TRUE)
         [] t.kind = "fallback" ->
                on_global_click(Without(timers, i)) /\ UNCHANGED clickQueue
         [] t.kind = "restore" ->
                \E fails \in BOOLEAN :
                    /\ clipboard' = restore_clipboard(t.text, clipboard, fails)
                    /\ clipFault' = (clipFault \/ fails)
                    /\ timers' = Without(timers, i)
                    /\ UNCHANGED <<overlayVisible, clickToPaste, pynputAvailable,
                                   waiting_text, waiting_macro, mouse_listener, listeners,
                                   waiting_badge, badges, clickQueue, sels, calls, armedEver,
                                   replaced, cancelled, stale, pressSinceArm, pc, inj, caret, mb>>

\* The queued click_detected signal is delivered: _on_global_click.
HandleClick ==
    /\ pc = "app"
    /\ clickQueue > 0
    /\ clickQueue' = clickQueue - 1
    /\ on_global_click(timers)

---------------------------------------------------------------------------
\* The pynput listener thread and the rest of the system.

Buttons == {"left", "right", "middle"}

\* on_click(x, y, button, pressed) in the listener thread: a left press
\* emits click_detected and returns False, which ends the listener.
OnClick(button, pressed) ==
    /\ pc = "app"
    /\ mouse_listener = "running"
    /\ IF pressed /\ button = "left"
       THEN /\ clickQueue' = clickQueue + 1
            /\ mouse_listener' = "finished"
            /\ listeners' = listeners - 1
            /\ pressSinceArm' = TRUE
       ELSE UNCHANGED <<clickQueue, mouse_listener, listeners, pressSinceArm>>
    /\ UNCHANGED <<overlayVisible, clickToPaste, pynputAvailable, timers, waiting_text,
                   waiting_macro, waiting_badge, badges, clipboard, sels, calls, armedEver,
                   replaced, cancelled, stale, clipFault, pc, inj, caret, mb>>

---------------------------------------------------------------------------
\* ClipTrayApp.__init__: nothing armed, the overlay hidden.  The setting
\* click_to_paste and the availability of pynput are inputs of the run.
Init ==
    /\ overlayVisible = FALSE
    /\ clickToPaste \in BOOLEAN
    /\ pynputAvailable \in BOOLEAN
    /\ timers = <<>>
    /\ waiting_text = <<>>
    /\ waiting_macro = <<>>
    /\ mouse_listener = "None"
    /\ listeners = 0
    /\ waiting_badge = FALSE
    /\ badges = 0
    /\ clickQueue = 0
    /\ clipboard = UserClipboard
    /\ sels = <<>>
    /\ calls = <<>>
    /\ armedEver = {}
    /\ replaced = {}
    /\ cancelled = {}
    /\ stale = {}
    /\ pressSinceArm = FALSE
    /\ clipFault = FALSE
    /\ pc = "app"
    /\ inj = [fn |-> "none"]
    /\ caret = CaretCompanion(TRUE)
    /\ mb = MacroBuilder

Next ==
    \/ ShowOverlay
    \/ HideOverlay
    \/ \E c \in ClipIds : ClipClicked(c)
    \/ CancelWaiting
    \/ \E i \in 1..Len(timers) : FireTimer(i)
    \/ HandleClick
    \/ \E b \in Buttons, pressed \in BOOLEAN : OnClick(b, pressed)

Spec == Init /\ [][Next]_vars

---------------------------------------------------------------------------
\* Vocabulary of the properties.

\* The calls of the injection engine made for selection n.
CallsOf(n) == {k \in 1..Len(calls) : calls[k].sel = n}

\* The pending click-triggered injections (the 150 ms timers) for selection n.
InjectTimersOf(n) ==
    {i \in 1..Len(timers) : /\ timers[i].kind \in {"inject_text", "inject_macro"}
                            /\ timers[i].sel = n}

\* The pending dispatch timers of _on_clip_clicked for selection n.
DispatchTimersOf(n) ==
    {i \in 1..Len(timers) : /\ timers[i].kind \in {"emit_type", "emit_macro",
                                                  "emit_wait_type", "emit_wait_macro"}
                            /\ timers[i].sel = n}

\* Selection n's payload has been handed to the injection engine, or the
\* hand-over is scheduled.
Injected(n) == CallsOf(n) # {} \/ InjectTimersOf(n) # {}

\* The Idle state of the wait-state machine.
Idle ==
    /\ waiting_text = <<>>
    /\ waiting_macro = <<>>
    /\ mouse_listener = "None"
    /\ ~waiting_badge

ClipOf(n) == Clips[sels[n].clip]

---------------------------------------------------------------------------
\* C1: at most one deferred payload is pending at a time (_waiting_text and
\* _waiting_macro are never both set), and a payload that was still pending
\* when another one was armed is never injected: the click that follows
\* injects the payload armed last.
C1_SinglePendingPayload ==
    /\ ~(waiting_text # <<>> /\ waiting_macro # <<>>)
    /\ \A n \in replaced : ~Injected(n) /\ n \notin PendingSels

\* C1's case: a payload was replaced and a later click injected its successor.
C1_Witness ==
    /\ replaced # {}
    /\ \E k \in 1..Len(calls) : calls[k].click /\ calls[k].sel \notin replaced

\* C2 (as claimed): with the mouse hook available, a click-triggered call is
\* made only for a payload that saw a left press observed after its arming.
C2_NoInjectionBeforeClick ==
    pynputAvailable =>
        \A k \in 1..Len(calls) : calls[k].click => calls[k].sel \notin stale

\* C3: each armed payload is handed to the injection engine at most once,
\* and once handed over it is no longer pending, so a further click
\* notification finds nothing to inject.
C3_InjectedAtMostOnce ==
    \A n \in armedEver :
        /\ Cardinality(CallsOf(n)) + Cardinality(InjectTimersOf(n)) <= 1
        /\ Injected(n) => n \notin PendingSels

\* C3's case: a click-triggered injection was made and a further click
\* notification is queued while nothing is pending.
C3_Witness ==
    /\ \E k \in 1..Len(calls) : calls[k].click
    /\ clickQueue > 0
    /\ PendingSels = {}

\* C4: the step that cancels an armed payload ends in Idle, and a cancelled
\* payload is never pending, scheduled for injection or injected afterwards.
C4_CancelDiscards ==
    [][ /\ (cancelled' # cancelled) => Idle'
        /\ \A n \in cancelled' : (~Injected(n))' /\ n \notin PendingSels'
      ]_vars

\* C4's case: a payload was cancelled and a click notification arrives after.
C4_Witness ==
    /\ cancelled # {}
    /\ clickQueue > 0

\* C5 (as claimed): no call of type_text or execute_macro is made while the
\* overlay window is visible.
C5_NoInjectionIntoOverlay ==
    \A k \in 1..Len(calls) : ~calls[k].overlay

\* C6: a selection of a non-macro clip with click_to_paste disabled leads to
\* exactly one type_text call (made, or still due from its dispatch timer),
\* with the clip's text, outside the click path, and never arms the wait state.
C6_ImmediateTextDispatch ==
    \A n \in 1..Len(sels) :
        (~ClipOf(n).is_macro /\ ~sels[n].ctp) =>
            /\ Cardinality(CallsOf(n)) + Cardinality(DispatchTimersOf(n)) = 1
            /\ \A k \in CallsOf(n) : /\ calls[k].fn = "type_text"
                                     /\ calls[k].text = ClipOf(n).text
                                     /\ ~calls[k].click
            /\ n \notin armedEver
            /\ InjectTimersOf(n) = {}
            /\ Idle

\* C6's case: the type_text call of such a selection has been made.
C6_Witness ==
    \E n \in 1..Len(sels) :
        /\ ~ClipOf(n).is_macro /\ ~sels[n].ctp
        /\ CallsOf(n) # {}

\* The path selection n took: "macro" or "text", from what was armed or called.
TookMacroPath(n) ==
    \/ \E k \in CallsOf(n) : calls[k].fn = "execute_macro"
    \/ \E k \in 1..Len(waiting_macro) : waiting_macro[k].sel = n
    \/ \E i \in 1..Len(timers) : timers[i].sel = n
                                 /\ timers[i].kind \in {"emit_macro", "emit_wait_macro",
                                                        "inject_macro"}

TookTextPath(n) ==
    \/ \E k \in CallsOf(n) : calls[k].fn = "type_text"
    \/ \E k \in 1..Len(waiting_text) : waiting_text[k].sel = n
    \/ \E i \in 1..Len(timers) : timers[i].sel = n
                                 /\ timers[i].kind \in {"emit_type", "emit_wait_type",
                                                        "inject_text"}

C9_ClipboardRestored ==
    ( /\ ~clipFault
      /\ calls # <<>>
      /\ \A i \in 1..Len(timers) : timers[i].kind # "restore" )
        => clipboard = UserClipboard

---------------------------------------------------------------------------
\* One call of the injection engine on its own: the argument, the clipboard
\* it finds and the failing accesses are drawn at the start; the call runs;
\* the restoration it scheduled (if any) fires.

SeqsUpTo(S, n) == UNION {[1..m -> S] : m \in 0..n}

\* The steps a macro is built from: text, empty text, a key, a key
\* combination, and an ActionStep without keys (ActionStep's default).
StepAlphabet ==
    { TextStep(<<"x">>), TextStep(<<>>),
      ActionStep(<<"enter">>, "Enter"), ActionStep(<<"ctrl", "a">>, "Ctrl + A"),
      ActionStep(<<>>, "") }

Chars == {"a", "\n", "\t"}

ClipboardsFound == {UserClipboard, <<>>}

InjectInputs ==
    { [fn |-> "execute_macro", text |-> <<>>, steps |-> st, env |-> e, cb0 |-> c,
       cb |-> c, events |-> <<>>, restore |-> <<>>, raised |-> FALSE, restoreFailed |-> FALSE] :
          st \in SeqsUpTo(StepAlphabet, MaxSteps), e \in Envs(MaxSteps), c \in ClipboardsFound }
    \cup
    { [fn |-> "type_text", text |-> tx, steps |-> <<>>, env |-> e, cb0 |-> c,
       cb |-> c, events |-> <<>>, restore |-> <<>>, raised |-> FALSE, restoreFailed |-> FALSE] :
          tx \in SeqsUpTo(Chars, MaxText), e \in Envs(1), c \in ClipboardsFound }

InitInject ==
    /\ overlayVisible = FALSE
    /\ clickToPaste = FALSE
    /\ pynputAvailable = TRUE
    /\ timers = <<>>
    /\ waiting_text = <<>>
    /\ waiting_macro = <<>>
    /\ mouse_listener = "None"
    /\ listeners = 0
    /\ waiting_badge = FALSE
    /\ badges = 0
    /\ clickQueue = 0
    /\ clipboard = UserClipboard
    /\ sels = <<>>
    /\ calls = <<>>
    /\ armedEver = {}
    /\ replaced = {}
    /\ cancelled = {}
    /\ stale = {}
    /\ pressSinceArm = FALSE
    /\ clipFault = FALSE
    /\ pc = "input"
    /\ inj \in InjectInputs
    /\ caret = CaretCompanion(TRUE)
    /\ mb = MacroBuilder

Ran(res) ==
    [inj EXCEPT !.cb = res.clipboard, !.events = res.events,
                !.restore = res.restore, !.raised = res.raised]

RunExecuteMacro ==
    /\ pc = "input"
    /\ inj.fn = "execute_macro"
    /\ inj' = Ran(execute_macro(inj.steps, inj.cb0, inj.env))
    /\ pc' = "called"
    /\ UNCHANGED <<appVars, caret, mb>>

RunTypeText ==
    /\ pc = "input"
    /\ inj.fn = "type_text"
    /\ inj' = Ran(type_text(inj.text, inj.cb0, inj.env))
    /\ pc' = "called"
    /\ UNCHANGED <<appVars, caret, mb>>

\* The QTimer.singleShot(1000, ...) of the call fires: _restore_clipboard.
RunRestore ==
    /\ pc = "called"
    /\ inj.restore # <<>>
    /\ \E fails \in BOOLEAN :
          inj' = [inj EXCEPT !.cb = restore_clipboard(inj.restore[1], inj.cb, fails),
                             !.restoreFailed = fails]
    /\ pc' = "restored"
    /\ UNCHANGED <<appVars, caret, mb>>

NextInject == RunExecuteMacro \/ RunTypeText \/ RunRestore

SpecInject == InitInject /\ [][NextInject]_vars

---------------------------------------------------------------------------
\* Vocabulary of the properties of one call.

RECURSIVE SelectOps(_, _)
SelectOps(events, ops) ==
    IF events = <<>> THEN <<>>
    ELSE IF Head(events).op \in ops
         THEN <<Head(events)>> \o SelectOps(Tail(events), ops)
         ELSE SelectOps(Tail(events), ops)

CountOps(events, ops) == Len(SelectOps(events, ops))

\* What executing step number i injects when its clipboard write succeeds.
StepInjection(step) ==
    IF IsTextStep(step) /\ step.value # <<>>
    THEN <<Ev("copy", step.value), Ev("hotkey", <<"ctrl", "v">>)>>
    ELSE IF IsActionStep(step) /\ step.keys # <<>>
    THEN <<Ev("hotkey", step.keys)>>
    ELSE <<>>

\* The injections of steps i.. in order, leaving out step number lost.
RECURSIVE InjectionsFrom(_, _, _)
InjectionsFrom(steps, i, lost) ==
    IF i > Len(steps) THEN <<>>
    ELSE (IF i = lost THEN <<>> ELSE StepInjection(steps[i]))
             \o InjectionsFrom(steps, i + 1, lost)

MacroRan == pc # "input" /\ inj.fn = "execute_macro"

\* C8 (as claimed): with pyperclip importable, a call of execute_macro reads
\* the clipboard exactly once, before anything else, and schedules exactly
\* one restoration, of what it read, after the last step.
C8_SaveOnceRestoreOnce ==
    (MacroRan /\ ~inj.env.import) =>
        /\ CountOps(inj.events, {"paste"}) = 1
        /\ inj.events[1].op = "paste"
        /\ CountOps(inj.events, {"schedule_restore"}) = 1
        /\ inj.events[Len(inj.events)] =
              Ev("schedule_restore", IF inj.env.read THEN <<>> ELSE inj.cb0)

\* C10 (as claimed): when a clipboard read or write fails in execute_macro,
\* no exception leaves the call, the restoration is scheduled and every
\* step but the one whose write failed is injected, in order.
C10_FaultLosesOneStep ==
    (MacroRan /\ ~inj.env.import) =>
        /\ ~inj.raised
        /\ Len(inj.restore) = 1
        /\ SelectOps(inj.events, {"copy", "hotkey"}) =
              InjectionsFrom(inj.steps, 1, inj.env.copyFail)

TypeTextRan == pc # "input" /\ inj.fn = "type_text"

\* C11 (as claimed): when the clipboard module is unavailable, the read
\* fails or the write fails in type_text, no exception leaves the call and
\* the keys synthesized are the per-character typing of the text, newline
\* as Enter and tab as Tab.
C11_FallbackDelivers ==
    (TypeTextRan /\ (inj.env.import \/ inj.env.read \/ inj.env.copyFail = 1)) =>
        /\ ~inj.raised
        /\ SelectOps(inj.events, {"press", "write"}) = TypeChars(inj.text)

\* C12 (as claimed): with pyperclip importable, the injections of a call of
\* execute_macro are those of its steps, in sequence order, each once: a
\* clipboard paste per TextStep with a value, a key combination per
\* ActionStep, nothing for a TextStep without value.
C12_StepsInOrderOnce ==
    (MacroRan /\ ~inj.env.import) =>
        SelectOps(inj.events, {"copy", "hotkey"}) = InjectionsFrom(inj.steps, 1, 0)

---------------------------------------------------------------------------
\* The caret companion on its own: the setting is switched, keys are
\* pressed in any application, the timers fire, the overlay opens; at each
\* poll the focused window answers the probes in any way.

InitCaret ==
    /\ overlayVisible = FALSE
    /\ clickToPaste = FALSE
    /\ pynputAvailable = TRUE
    /\ timers = <<>>
    /\ waiting_text = <<>>
    /\ waiting_macro = <<>>
    /\ mouse_listener = "None"
    /\ listeners = 0
    /\ waiting_badge = FALSE
    /\ badges = 0
    /\ clickQueue = 0
    /\ clipboard = UserClipboard
    /\ sels = <<>>
    /\ calls = <<>>
    /\ armedEver = {}
    /\ replaced = {}
    /\ cancelled = {}
    /\ stale = {}
    /\ pressSinceArm = FALSE
    /\ clipFault = FALSE
    /\ pc = "caret"
    /\ inj = [fn |-> "none"]
    /\ \E kbAvailable \in BOOLEAN : caret = CaretCompanion(kbAvailable)
    /\ mb = MacroBuilder

\* _on_settings_changed / ClipTrayApp.__init__: set_enabled(setting).
SetEnabled(on) ==
    /\ on # caret.enabled
    /\ caret' = [set_enabled(caret, on) EXCEPT !.last = "set_enabled"]
    /\ UNCHANGED <<appVars, pc, inj, mb>>

\* A key is pressed somewhere: _on_kb_press in the listener thread emits
\* key_pressed, which is queued for the UI thread.
KeyPressed ==
    /\ caret.kb_listener = "running"
    /\ caret.keyQueue < MaxKeyQueue
    /\ caret' = [caret EXCEPT !.keyQueue = @ + 1]
    /\ UNCHANGED <<appVars, pc, inj, mb>>

\* A queued key_pressed notification is delivered: _on_key_activity.
KeyActivity ==
    /\ caret.keyQueue > 0
    /\ \E p \in Probes :
          caret' = [on_key_activity([caret EXCEPT !.keyQueue = @ - 1], p)
                        EXCEPT !.last = "key_activity"]
    /\ UNCHANGED <<appVars, pc, inj, mb>>

\* The poll timer (120 ms interval) times out: _poll_caret.
PollTimeout ==
    /\ caret.poll
    /\ \E p \in Probes : caret' = [poll_caret(caret, p) EXCEPT !.last = "poll"]
    /\ UNCHANGED <<appVars, pc, inj, mb>>

\* The single-shot fade timer (4000 ms) times out: _start_fade.
FadeTimeout ==
    /\ caret.fade
    /\ caret' = [start_fade(caret) EXCEPT !.last = "fade"]
    /\ UNCHANGED <<appVars, pc, inj, mb>>

\* The fade-out animation of the icon finishes: _on_fade_done.
FadeDone ==
    /\ caret.fading
    /\ caret' = [on_fade_done(caret) EXCEPT !.last = "fade_done"]
    /\ UNCHANGED <<appVars, pc, inj, mb>>

\* The overlay is opened (_show_overlay, _on_companion_open): hide_icon.
HideIcon ==
    /\ hide_icon(caret) # caret
    /\ caret' = [hide_icon(caret) EXCEPT !.last = "hide_icon"]
    /\ UNCHANGED <<appVars, pc, inj, mb>>

NextCaret ==
    \/ \E on \in BOOLEAN : SetEnabled(on)
    \/ KeyPressed
    \/ KeyActivity
    \/ PollTimeout
    \/ FadeTimeout
    \/ FadeDone
    \/ HideIcon

SpecCaret == InitCaret /\ [][NextCaret]_vars

---------------------------------------------------------------------------
\* Vocabulary of the locator's properties.

Polled == caret.located.invoked # <<>>

\* Method m has a position to give for the probes p.
Yields(m, p) ==
    CASE m = "win32" -> p.win32 = "caret" /\ ~p.own
      [] m = "tp2" -> p.tp2 = "pos"
      [] m = "selection" -> p.selection = "pos"
      [] m = "fallback" -> /\ p.fallback = "control"
                           /\ p.ctrl.name \in EDITABLE_TYPES
                           /\ p.ctrl.width > 0 /\ p.ctrl.height > 0

\* The first k methods of the fixed order.
FirstMethods(k) == SubSeq(MethodOrder, 1, k)

\* The position the fallback chain has to return: that of the first method
\* of the order that yields one; <<>> when none does.
RECURSIVE FirstYield(_, _)
FirstYield(p, k) ==
    IF k > Len(MethodOrder) THEN <<>>
    ELSE IF Yields(MethodOrder[k], p) THEN <<MethodOrder[k]>>
    ELSE FirstYield(p, k + 1)

\* C13: a call of get_caret_screen_pos that returns invokes the methods in
\* the fixed order win32, tp2, selection, fallback, stops at the first one
\* that yields a position and returns that position (None after all four
\* found nothing); with method 1 finding nothing and method 2 a position the
\* result is method 2's and methods 3 and 4 are not invoked.
C13_FirstMethodWins ==
    (Polled /\ ~caret.located.raised) =>
        LET r == caret.located
            p == caret.probes
            k == Len(r.invoked)
        IN  /\ r.invoked = FirstMethods(k)
            /\ r.pos = FirstYield(p, 1)
            /\ \A j \in 1..(k - 1) : ~Yields(MethodOrder[j], p)
            /\ (r.pos # <<>>) => r.pos = <<MethodOrder[k]>>
            /\ (r.pos = <<>>) => k = Len(MethodOrder)
            /\ (~Yields("win32", p) /\ Yields("tp2", p)) =>
                  r.pos = <<"tp2">> /\ r.invoked = <<"win32", "tp2">>

\* C13's case: method 1 found nothing, method 2 gave the position, and
\* methods 3 and 4 both had a position to give.
C13_Witness ==
    /\ Polled
    /\ caret.located.pos = <<"tp2">>
    /\ caret.probes.win32 = "nocaret"
    /\ caret.probes.selection = "pos"
    /\ caret.probes.fallback = "control"

\* C14 (as claimed): the locator never raises; a method that fails counts
\* as one that found nothing, so the result is the position of the first
\* method that yields one, and None when no method does.
C14_LocatorNeverRaises ==
    Polled =>
        /\ ~caret.located.raised
        /\ caret.located.pos = FirstYield(caret.probes, 1)

\* C15 (as claimed): after a poll made while the focused window belongs to
\* ClipTray's own process, the locator has reported no position and the
\* companion icon is not shown.
C15_NeverOverOwnWindow ==
    (Polled /\ caret.probes.own) =>
        /\ caret.located.pos = <<>>
        /\ ~caret.icon

\* C16 (as claimed): while the companion is enabled and its keyboard
\* listener could not be started, the poll timer runs.
C16_DegradesToPolling ==
    (caret.enabled /\ caret.kb_listener = "None") => caret.poll

---------------------------------------------------------------------------
\* The macro builder of one add/edit dialog on its own: the dialog loads
\* the clip's steps, the user edits, saves, and the clip is read again from
\* the clips file.

BuilderChars == {"a", " "}

BuilderTexts == SeqsUpTo(BuilderChars, MaxText)

\* The keys pressed into the capture overlay in the builder's runs: Return,
\* and A with Ctrl and Shift held.
BuilderKeyEvents ==
    { [key |-> "Key_Return", modifiers |-> {}, text |-> CarriageReturn],
      [key |-> "Key_A", modifiers |-> {"ControlModifier", "ShiftModifier"}, text |-> "A"] }

\* What key capture hands over (KeyCaptureOverlay.keyPressEvent).
CapturedActions ==
    {ActionStep(key_event_to_action(e).keys, key_event_to_action(e).label) :
        e \in BuilderKeyEvents}

BuilderSteps == {TextStep(t) : t \in BuilderTexts} \cup CapturedActions

\* The characters of all text steps, in order.
RECURSIVE TextOf(_)
TextOf(steps) ==
    IF steps = <<>> THEN <<>>
    ELSE (IF IsTextStep(Head(steps)) THEN Head(steps).value ELSE <<>>)
             \o TextOf(Tail(steps))

\* The step lists a stored macro clip can hold.
StoredSteps ==
    {st \in SeqsUpTo(BuilderSteps, MaxStored) : Len(TextOf(st)) <= MaxText}

\* str.strip() for the blank character.
RECURSIVE LStrip(_)
LStrip(t) == IF t # <<>> /\ Head(t) = " " THEN LStrip(Tail(t)) ELSE t

RECURSIVE RStrip(_)
RStrip(t) ==
    IF t # <<>> /\ t[Len(t)] = " " THEN RStrip(SubSeq(t, 1, Len(t) - 1)) ELSE t

Strip(t) == RStrip(LStrip(t))

InitBuilder ==
    /\ overlayVisible = FALSE
    /\ clickToPaste = FALSE
    /\ pynputAvailable = TRUE
    /\ timers = <<>>
    /\ waiting_text = <<>>
    /\ waiting_macro = <<>>
    /\ mouse_listener = "None"
    /\ listeners = 0
    /\ waiting_badge = FALSE
    /\ badges = 0
    /\ clickQueue = 0
    /\ clipboard = UserClipboard
    /\ sels = <<>>
    /\ calls = <<>>
    /\ armedEver = {}
    /\ replaced = {}
    /\ cancelled = {}
    /\ stale = {}
    /\ pressSinceArm = FALSE
    /\ clipFault = FALSE
    /\ pc = "builder"
    /\ inj = [fn |-> "none"]
    /\ caret = CaretCompanion(TRUE)
    /\ mb = MacroBuilder

\* AddEditDialog._populate: set_steps on the freshly built builder.
SetSteps(steps) ==
    /\ pc = "builder"
    /\ mb = MacroBuilder
    /\ mb' = set_steps(mb, steps)
    /\ UNCHANGED <<appVars, pc, inj, caret>>

AddTextClicked ==
    /\ pc = "builder"
    /\ Len(mb.steps) < MaxBuilderSteps
    /\ mb' = on_add_text_clicked(mb)
    /\ UNCHANGED <<appVars, pc, inj, caret>>

AddActionClicked ==
    /\ pc = "builder"
    /\ mb' = on_add_action_clicked(mb)
    /\ UNCHANGED <<appVars, pc, inj, caret>>

ActionCaptured(action) ==
    /\ pc = "builder"
    /\ mb.listening
    /\ Len(mb.steps) < MaxBuilderSteps
    /\ mb' = on_action_captured(mb, action)
    /\ UNCHANGED <<appVars, pc, inj, caret>>

CaptureCancelled ==
    /\ pc = "builder"
    /\ mb.listening
    /\ mb' = on_capture_cancelled(mb)
    /\ UNCHANGED <<appVars, pc, inj, caret>>

\* The remove button of step number index (from 0); _refresh_ui gives a
\* text block one only while the list has more than one step.
RemoveStep(index) ==
    /\ pc = "builder"
    /\ index < Len(mb.steps)
    /\ IsActionStep(mb.steps[index + 1]) \/ Len(mb.steps) > 1
    /\ mb' = on_remove_step(mb, index)
    /\ UNCHANGED <<appVars, pc, inj, caret>>

TextChanged(index, text) ==
    /\ pc = "builder"
    /\ index < Len(mb.steps)
    /\ IsTextStep(mb.steps[index + 1])
    /\ mb' = on_text_changed(mb, index, text)
    /\ Len(TextOf(mb'.steps)) <= MaxText
    /\ UNCHANGED <<appVars, pc, inj, caret>>

\* AddEditDialog._on_save for a macro, then ClipManager.save: the steps
\* are written with to_dict.
Save ==
    /\ pc = "builder"
    /\ Strip(TextOf(mb.steps)) # <<>> \/ \E i \in 1..Len(mb.steps) : IsActionStep(mb.steps[i])
    /\ mb' = [mb EXCEPT !.file = steps_to_dict(mb.steps), !.popped = <<>>,
                        !.loaded = <<>>, !.event = <<>>]
    /\ pc' = "saved"
    /\ UNCHANGED <<appVars, inj, caret>>

\* ClipManager.load: the steps are read with step_from_dict.
Reload ==
    /\ pc = "saved"
    /\ mb' = [mb EXCEPT !.reloaded = steps_from_dict(mb.file)]
    /\ pc' = "reloaded"
    /\ UNCHANGED <<appVars, inj, caret>>

NextBuilder ==
    \/ \E steps \in StoredSteps : SetSteps(steps)
    \/ AddTextClicked
    \/ AddActionClicked
    \/ \E action \in CapturedActions : ActionCaptured(action)
    \/ CaptureCancelled
    \/ \E index \in 0..(MaxBuilderSteps - 1) : RemoveStep(index)
    \/ \E index \in 0..(MaxBuilderSteps - 1), text \in BuilderTexts : TextChanged(index, text)
    \/ Save
    \/ Reload

SpecBuilder == InitBuilder /\ [][NextBuilder]_vars

---------------------------------------------------------------------------
\* Vocabulary of the builder's properties.

NoAdjacentText(steps) ==
    \A i \in 1..(Len(steps) - 1) : ~(IsTextStep(steps[i]) /\ IsTextStep(steps[i + 1]))

\* The list as a flat sequence of characters and action steps.
RECURSIVE Flat(_)
Flat(steps) ==
    IF steps = <<>> THEN <<>>
    ELSE (IF IsTextStep(Head(steps))
          THEN [i \in 1..Len(Head(steps).value) |-> Head(steps).value[i]]
          ELSE <<Head(steps)>>) \o Flat(Tail(steps))

\* C17 (as claimed): the builder's step list never holds two adjacent
\* TextSteps.
C17_NoAdjacentTextSteps == NoAdjacentText(mb.steps)

\* C18: merging a merged list changes nothing; the merge keeps every
\* action step, in order, with the same text between them, and leaves no
\* two adjacent TextSteps - for every step list the builder can hold, and
\* for the list each remove handed to the merge, whose result the builder
\* then holds.
C18_MergeIdempotent ==
    LET Merged(S) == merge_adjacent_text(S, <<>>)
        Good(S) == /\ Merged(Merged(S)) = Merged(S)
                   /\ Flat(Merged(S)) = Flat(S)
                   /\ SelectSeq(Merged(S), IsActionStep) = SelectSeq(S, IsActionStep)
                   /\ NoAdjacentText(Merged(S))
    IN  /\ Good(mb.steps)
        /\ mb.popped # <<>> =>
              /\ Good(mb.popped[1])
              /\ mb.steps = IF mb.popped[1] = <<>> THEN <<TextStep(<<>>)>>
                            ELSE Merged(mb.popped[1])

\* C18's case: a remove has merged two text blocks around an action step
\* that stays in the list.
C18_Witness ==
    /\ mb.popped # <<>>
    /\ Len(mb.steps) < Len(mb.popped[1])
    /\ \E i \in 1..Len(mb.steps) : IsActionStep(mb.steps[i])
    /\ \E i \in 1..Len(mb.steps) : IsTextStep(mb.steps[i]) /\ Len(mb.steps[i].value) > 1

\* C19: step_from_dict(to_dict(step)) is the step, for every step of every
\* list the builder holds, and the steps read back from the clips file are
\* the steps that were saved.
C19_StepRoundTrip ==
    /\ \A i \in 1..Len(mb.steps) : step_from_dict(to_dict(mb.steps[i])) = mb.steps[i]
    /\ pc = "reloaded" => mb.reloaded = mb.steps

\* C19's case: a list with a text step and an action step with two
\* modifiers was saved and read back.
C19_Witness ==
    /\ pc = "reloaded"
    /\ \E i \in 1..Len(mb.reloaded) : IsTextStep(mb.reloaded[i]) /\ mb.reloaded[i].value # <<>>
    /\ \E i \in 1..Len(mb.reloaded) : IsActionStep(mb.reloaded[i]) /\ Len(mb.reloaded[i].keys) = 3

---------------------------------------------------------------------------
\* The application under the scheduling of the Qt event loop: a queued
\* click_detected signal is delivered and an expired single-shot timer
\* fires (the UI thread never blocks for good).
SpecLive ==
    /\ Spec
    /\ WF_vars(HandleClick)
    /\ WF_vars(\E i \in 1..Len(timers) : FireTimer(i))

\* The payload armed for selection n is a macro or a non-empty text.
ArmedContent(n) ==
    \/ \E k \in 1..Len(waiting_macro) : waiting_macro[k].sel = n
    \/ \E k \in 1..Len(waiting_text) : waiting_text[k].sel = n /\ waiting_text[k].text # <<>>

\* C20 (as claimed): once a left press has been observed by the hook while
\* the payload of selection n (a macro or a non-empty text) is armed, that
\* payload is eventually handed to the injection engine, in exactly one call.
C20_ObservedClickInjects ==
    \A n \in 1..MaxSelections :
        (pressSinceArm /\ ArmedContent(n)) ~> (Cardinality(CallsOf(n)) = 1)


---------------------------------------------------------------------------
\* The wait state's resources: the mouse listener, the fallback timer and
\* the badge.

\* A deferred payload is held (_waiting_text or _waiting_macro is not None).
PayloadPending == waiting_text # <<>> \/ waiting_macro # <<>>

\* C21: at most one global mouse listener is active at any time, the active
\* one is the listener _mouse_listener refers to (arming again has stopped
\* the previous one), and while no payload is pending none is active.
C21_SingleMouseListener ==
    /\ listeners <= 1
    /\ listeners = (IF mouse_listener = "running" THEN 1 ELSE 0)
    /\ ~PayloadPending => listeners = 0

\* C21's case: a payload was armed while another was pending and its
\* listener was still running (no press was observed), and one listener runs.
C21_Witness ==
    /\ replaced # {}
    /\ clickQueue = 0
    /\ listeners = 1

\* The pending fallback timers, and those created by the arming of selection n.
FallbackTimersPending == {i \in 1..Len(timers) : timers[i].kind = "fallback"}

FallbackTimersOf(n) == {i \in FallbackTimersPending : timers[i].sel = n}

\* C22 (as claimed): without the hook API at most one fallback timer is
\* outstanding, and the click-triggered injection of a payload is scheduled
\* only by the firing of the timer its own arming created, never by a timer
\* left over from an earlier arming.
C22_SingleFallbackTimer ==
    /\ [](Cardinality(FallbackTimersPending) <= 1)
    /\ [][~pynputAvailable =>
            \A n \in 1..MaxSelections :
                (InjectTimersOf(n) = {} /\ InjectTimersOf(n)' # {})
                    => Cardinality(FallbackTimersOf(n)') < Cardinality(FallbackTimersOf(n))]_vars

---------------------------------------------------------------------------
\* The companion's timers.

\* C23 (as claimed): when _on_key_activity has just handled a notification
\* with the companion enabled, the fade timer runs and the poll timer runs,
\* whatever the immediate first poll found (the locator did not raise).
C23_ActivityStartsTimers ==
    (caret.last = "key_activity" /\ caret.enabled /\ ~caret.located.raised)
        => (caret.fade /\ caret.poll)

\* C24 (as claimed): whenever the icon is shown, the fade timer is running
\* or the fade-out of the icon is in progress.
C24_ShownIconFades ==
    caret.icon => (caret.fade \/ caret.fading)

\* C29: while the companion is disabled its keyboard listener is stopped,
\* both timers are inactive and the icon is hidden; this holds also after a
\* notification queued before set_enabled(False) has been handled.
C29_DisabledIsQuiet ==
    ~caret.enabled =>
        /\ caret.kb_listener = "None"
        /\ ~caret.poll
        /\ ~caret.fade
        /\ ~caret.icon

\* C29's case: the companion, which had polled and found a caret, was
\* disabled, and a notification queued before has been handled since.
C29_Witness ==
    /\ ~caret.enabled
    /\ caret.last = "key_activity"
    /\ caret.located.pos # <<>>

---------------------------------------------------------------------------
\* One call of the caret locator on its own, for every focused control.

InitLocate ==
    /\ overlayVisible = FALSE
    /\ clickToPaste = FALSE
    /\ pynputAvailable = TRUE
    /\ timers = <<>>
    /\ waiting_text = <<>>
    /\ waiting_macro = <<>>
    /\ mouse_listener = "None"
    /\ listeners = 0
    /\ waiting_badge = FALSE
    /\ badges = 0
    /\ clickQueue = 0
    /\ clipboard = UserClipboard
    /\ sels = <<>>
    /\ calls = <<>>
    /\ armedEver = {}
    /\ replaced = {}
    /\ cancelled = {}
    /\ stale = {}
    /\ pressSinceArm = FALSE
    /\ clipFault = FALSE
    /\ pc = "locate"
    /\ inj = [fn |-> "none"]
    /\ \E p \in AllProbes : caret = [CaretCompanion(TRUE) EXCEPT !.probes = p]
    /\ mb = MacroBuilder

\* get_caret_screen_pos() is called.
Locate ==
    /\ pc = "locate"
    /\ pc' = "located"
    /\ caret' = [caret EXCEPT !.located = get_caret_screen_pos(caret.probes, 1, <<>>)]
    /\ UNCHANGED <<appVars, inj, mb>>

\* _get_caret_fallback() is called by itself.
CallFallback ==
    /\ pc = "locate"
    /\ pc' = "fallback_called"
    /\ caret' = [caret EXCEPT !.located =
                    [pos |-> get_caret_fallback(caret.probes).pos,
                     raised |-> get_caret_fallback(caret.probes).raised,
                     invoked |-> <<"fallback">>]]
    /\ UNCHANGED <<appVars, inj, mb>>

NextLocate ==
    \/ Locate
    \/ CallFallback

SpecLocate == InitLocate /\ [][NextLocate]_vars

\* Method 4 was invoked by the call made.
FallbackInvoked ==
    \E k \in 1..Len(caret.located.invoked) : caret.located.invoked[k] = "fallback"

\* C25 (as claimed): method 4 gives the corner of the focused control's
\* bounding rectangle exactly when there is a focused control, its rectangle
\* is non-empty (positive width and height) and it has a whitelisted type
\* or exposes a whitelisted accepts-text pattern; otherwise it gives None.
C25_FallbackEditableTest ==
    FallbackInvoked =>
        LET p == caret.probes IN
        (caret.located.pos = <<"fallback">>)
            <=> /\ p.fallback = "control"
                /\ p.ctrl.width > 0 /\ p.ctrl.height > 0
                /\ \/ p.ctrl.name \in EDITABLE_TYPES
                   \/ p.ctrl.patterns \cap EDITABLE_PATTERNS # {}

---------------------------------------------------------------------------
\* The builder's step list is never empty.

\* C26: after every edit the builder's sequence is non-empty: a removal
\* that empties the list, and set_steps of an empty list, leave exactly one
\* text step with an empty value; a list that is not empty is kept as it is
\* (after a removal: as merged).
C26_NeverEmpty ==
    /\ mb.steps # <<>>
    /\ (mb.popped # <<>> /\ mb.popped[1] = <<>>) => mb.steps = <<TextStep(<<>>)>>
    /\ (mb.popped # <<>> /\ mb.popped[1] # <<>>)
            => mb.steps = merge_adjacent_text(mb.popped[1], <<>>)
    /\ (mb.loaded # <<>> /\ mb.loaded[1] = <<>>) => mb.steps = <<TextStep(<<>>)>>
    /\ (mb.loaded # <<>> /\ mb.loaded[1] # <<>>) => mb.steps = mb.loaded[1]

\* C26's case: the only step left, a captured action, has been removed.
C26_Witness ==
    /\ mb.popped = << <<>> >>
    /\ mb.steps = <<TextStep(<<>>)>>

---------------------------------------------------------------------------
\* Key capture on its own: the overlay of a fresh builder is started, keys
\* are pressed, the capture is cancelled.

KeyboardModifiers == {"ControlModifier", "AltModifier", "ShiftModifier", "MetaModifier"}

\* The key events received: the four modifier keys, Return, PageUp and
\* AltGr with the text Qt gives them, and A with the text of a, of A
\* (Shift or CapsLock) and of Ctrl+A.
KeyEvents ==
    {e \in [key : MODIFIER_KEYS \cup {"Key_Return", "Key_PageUp", "Key_A", "Key_AltGr"},
            modifiers : SUBSET KeyboardModifiers,
            text : {"", "a", "A", CtrlA, CarriageReturn}] :
        /\ e.key = "Key_A" => e.text \in {"a", "A", CtrlA}
        /\ e.key = "Key_Return" => e.text = CarriageReturn
        /\ e.key \notin {"Key_A", "Key_Return"} => e.text = ""}

InitCapture ==
    /\ overlayVisible = FALSE
    /\ clickToPaste = FALSE
    /\ pynputAvailable = TRUE
    /\ timers = <<>>
    /\ waiting_text = <<>>
    /\ waiting_macro = <<>>
    /\ mouse_listener = "None"
    /\ listeners = 0
    /\ waiting_badge = FALSE
    /\ badges = 0
    /\ clickQueue = 0
    /\ clipboard = UserClipboard
    /\ sels = <<>>
    /\ calls = <<>>
    /\ armedEver = {}
    /\ replaced = {}
    /\ cancelled = {}
    /\ stale = {}
    /\ pressSinceArm = FALSE
    /\ clipFault = FALSE
    /\ pc = "capture"
    /\ inj = [fn |-> "none"]
    /\ caret = CaretCompanion(TRUE)
    /\ mb = MacroBuilder

\* "+ Add Action": _on_add_action_clicked, KeyCaptureOverlay.start.
StartCapture ==
    /\ pc = "capture"
    /\ Cardinality({i \in 1..Len(mb.steps) : IsActionStep(mb.steps[i])}) < MaxCaptures
    /\ mb' = on_add_action_clicked(mb)
    /\ UNCHANGED <<appVars, pc, inj, caret>>

\* A key is pressed while the overlay has the keyboard: keyPressEvent.
KeyPressEvent(event) ==
    /\ pc = "capture"
    /\ mb.listening
    /\ mb' = keyPressEvent(mb, event)
    /\ UNCHANGED <<appVars, pc, inj, caret>>

\* The overlay's Cancel button: _cancel, then _on_capture_cancelled.
CancelCapture ==
    /\ pc = "capture"
    /\ mb.listening
    /\ mb' = on_capture_cancelled(mb)
    /\ UNCHANGED <<appVars, pc, inj, caret>>

NextCapture ==
    \/ StartCapture
    \/ \E event \in KeyEvents : KeyPressEvent(event)
    \/ CancelCapture

SpecCapture == InitCapture /\ [][NextCapture]_vars

\* The key handled last ended the capture: it produced the action step at
\* the insert position.
Produced == mb.event # <<>> /\ ~mb.listening

ModifierOrder == <<"ctrl", "alt", "shift", "win">>

FlagOf(token) ==
    CASE token = "ctrl" -> "ControlModifier"
      [] token = "alt" -> "AltModifier"
      [] token = "shift" -> "ShiftModifier"
      [] token = "win" -> "MetaModifier"

\* C27: the action step produced by a captured key has a non-empty keys
\* list whose last element is the non-modifier key and whose other elements
\* are the modifiers held, each once, in the order ctrl, alt, shift, win;
\* its label is the capitalised tokens joined with " + ".
C27_CapturedCombination ==
    Produced =>
        LET e == mb.event[1]
            a == mb.steps[mb.capture_insert_index + 1]
            n == Len(a.keys)
            Held(token) == FlagOf(token) \in e.modifiers
        IN  /\ IsActionStep(a)
            /\ n >= 1
            /\ a.keys[n] \notin {"ctrl", "alt", "shift", "win"}
            /\ SubSeq(a.keys, 1, n - 1) = SelectSeq(ModifierOrder, Held)
            /\ a.label = JoinPlus([i \in 1..n |-> capitalize(a.keys[i])])
            /\ (e.key = "Key_A" /\ e.modifiers = {"ControlModifier", "ShiftModifier"})
                    => a.label = "Ctrl + Shift + A"
            /\ (e.key = "Key_Return" /\ e.modifiers = {}) => a.label = "Enter"

\* C27's case: a key pressed with all four modifiers held was captured.
C27_Witness ==
    /\ Produced
    /\ mb.event[1].modifiers = KeyboardModifiers
    /\ Len(mb.steps[mb.capture_insert_index + 1].keys) = 5

\* A modifier-only press, or a key with neither a symbolic mapping nor
\* printable text.
Unrecognised(e) ==
    \/ e.key \in MODIFIER_KEYS
    \/ /\ e.key \notin DOMAIN QT_KEY_TO_NAME
       /\ e.text \in {"", CtrlA, CarriageReturn}

\* C28: a key press handled while listening that is a modifier alone or has
\* neither printable text nor a symbolic mapping leaves the step list as it
\* was and the capture listening; listening ends only by a recognised key,
\* which adds one step, or by cancel.
C28_UnrecognisedKeyIgnored ==
    [][/\ (mb'.event # <<>> /\ Unrecognised(mb'.event[1]))
            => (mb.listening /\ mb'.listening /\ mb'.steps = mb.steps)
       /\ (mb.listening /\ ~mb'.listening)
            => \/ mb'.event = <<>> /\ mb'.steps = mb.steps
               \/ /\ mb'.event # <<>>
                  /\ ~Unrecognised(mb'.event[1])
                  /\ Len(mb'.steps) = Len(mb.steps) + 1]_vars

\* C28's case: the listening overlay has handled A pressed with Ctrl held,
\* which arrives with a control character as its text, and listens on.
C28_Witness ==
    /\ mb.listening
    /\ mb.event # <<>>
    /\ mb.event[1].key = "Key_A"
    /\ mb.event[1].modifiers = {"ControlModifier"}
    /\ mb.event[1].text = CtrlA

===========================================================================
